---- MODULE Spec2Model ----
(***************************************************************************)
(* Asynchronous search dispatch and persistent result retrieval of the     *)
(* uber-eats MCP server: server.py (the dispatcher find_menu_options, the  *)
(* retrieval get_search_results, the result store) and search_worker.py    *)
(* (the detached worker process).                                          *)
(*                                                                         *)
(* A text is a sequence of fragments; its value is the concatenation of    *)
(* the fragments.  The fragments are cut so that the two prefixes the      *)
(* status rule looks for ("Error", "Search was cancelled") end on a        *)
(* fragment boundary, which makes str.startswith a prefix test on the      *)
(* sequence.  A Python value that may be None is a set: {} is None and     *)
(* {t} is the text t.  The timestamp field of a record is left out: no     *)
(* operation reads it.                                                     *)
(*                                                                         *)
(* Three further parts: the acknowledgements the tools return, the         *)
(* in-process task of order_food (perform_order and its notifications),    *)
(* and the JSON text of the result field, character by character, for the  *)
(* round trip save_result_to_disk / load_result_from_disk.                 *)
(***************************************************************************)
EXTENDS Naturals, Sequences, FiniteSets, TLC

\* ------------------------------------------------------------ bounds
\* Request identifiers the caller-facing context hands out (unique per call).
RequestIds == {"r1", "r2"}
\* Semantic parameters of a search.
Cravings == {"pizza", "sushi"}
Addresses == {"Stockholm, Sweden"}
\* Most steps the engine reports in one run (browser.py sets max_steps=50).
MaxSteps == 1
\* Calls of order_food (one identifier per call) and the items ordered.
Orders == {"o1", "o2"}
ItemNames == {"Margherita"}
\* Characters of a result text written through json.dump: a plain one, the two
\* that JSON escapes with a backslash, a control character and a non-ASCII one.
Chars == {"n", "\"", "\\", "\n", "U+00E9"}
\* Longest text of the round trip through the JSON file.
MaxTextLen == 2

\* ------------------------------------------------------------ state
VARIABLES
    alive,       \* the server process is running (it holds the read ends of every worker's stdout/stderr pipe)
    faults,      \* the storage may fail on this run (open() or the read raising)
    spc,         \* per request: position of find_menu_options
    job,         \* per dispatched request: its parameters (address, food_craving)
    search_results, \* server.py: the in-memory dict
    disk,        \* per request: the file RESULTS_DIR/<request_id>.json
    wpc,         \* per request: position of the worker process
    wsite,       \* per request: the call site of the save_result_to_disk the worker is in
    wsave,       \* per request: the argument `result` of that call
    result,      \* per request: run_search's local `result`
    step_count,  \* per request: run_search's local step_count
    engineRuns,  \* history: number of times the worker called run_browser_agent
    engineOut,   \* history: how that call ended
    writes,      \* history: per request, the completed durable writes, in order
    acks,        \* per answered call of this server process: the text the tool returned
    opc,         \* per order: position of the task perform_order
    ojob,        \* per order: item_name, and how the engine would end if it were run
    notes,       \* per order: the notifications sent through its context, in order
    cfile,       \* per request: the characters json.dump left in the file (round trip)
    ctext,       \* history: per request, the text of the last save (round trip)
    cload        \* the last load_result_from_disk of the round trip: request and value

orderVars == <<opc, ojob, notes>>
codecVars == <<cfile, ctext, cload>>

vars == <<alive, faults, spc, job, search_results, disk, wpc, wsite, wsave,
          result, step_count, engineRuns, engineOut, writes, acks, orderVars, codecVars>>

\* ------------------------------------------------------------ Python values
None == {}
Some(t) == {t}
Val(o) == CHOOSE t \in o : TRUE

\* str.startswith
StartsWith(t, p) == Len(p) <= Len(t) /\ SubSeq(t, 1, Len(p)) = p

\* ------------------------------------------------------------ texts
initial_status(j) ==
    <<"Search ", "for '", j.food_craving, "' at '", j.address,
      "' is running. Check back in 2-3 minutes for results.">>

CancelledMsg ==
    <<"Search ", "was cancelled", " due to timeout. Please try again with a simpler search or address.">>

ErrorMsg(e) == <<"Error", ": ">> \o e

\* The text find_menu_options returns; "<pid>" stands for process.pid.
SearchAck(request_id) ==
    <<"Search started! Worker process (PID ", "<pid>",
      ") is running the browser automation. Results will be available in 2-3 minutes at ",
      "resource://search_results/", request_id>>

\* The text order_food returns.
OrderAck(item_name) ==
    <<"Order for '", item_name, "' started. Your order is being processed.">>

NotFoundMsg(request_id) == <<"No search results found for request ID: ", request_id>>

\* str(e) of the exceptions the worker can meet
BrokenPipeStr == <<"[Errno 32] Broken pipe">>
NoneSliceStr == <<"'NoneType' object is not subscriptable">>
EngineErrors == {<<"Chrome executable not found">>}

\* What the engine can return for a job: result.final_result() is a text or None.
EngineResults(j) ==
    { None,
      Some(<<>>),
      Some(<<"Restaurant: Vesuvio ... ", j.food_craving, " ... Price: 150 SEK">>),
      Some(<<"Error", " 404 shown for ", j.food_craving>>) }

\* How run_browser_agent can end.
EngineOutcomes(j) ==
    [kind : {"return"}, value : EngineResults(j)]
        \cup [kind : {"raise"}, value : {Some(e) : e \in EngineErrors}]
        \cup [kind : {"cancelled"}, value : {None}]

Pending == [kind |-> "pending", value |-> None]

\* ------------------------------------------------------------ the durable record
NoFile == [kind |-> "absent"]
EmptyFile == [kind |-> "truncated"]
Garbled == [kind |-> "garbled"]

ServerStatus(text) ==
    IF ~StartsWith(text, <<"Error">>) /\ ~StartsWith(text, <<"Search ", "was cancelled">>)
    THEN "completed" ELSE "error"

WorkerStatus_NoCancel(text) ==
    IF ~StartsWith(text, <<"Error">>) THEN "completed" ELSE "error"

WorkerStatus(text) ==
    IF ~StartsWith(text, <<"Error">>) /\ ~StartsWith(text, <<"Search ", "was cancelled">>)
    THEN "completed" ELSE "error"

ServerRecord(request_id, text) ==
    [kind |-> "json", request_id |-> request_id, result |-> text, status |-> ServerStatus(text)]

WorkerRecord(request_id, text) ==
    [kind |-> "json", request_id |-> request_id, result |-> text, status |-> WorkerStatus(text)]

\* RESULTS_DIR / f"{request_id}.json": the key of the file in the results directory.
ServerResultFile(request_id) == request_id

WorkerResultFile_Fixed(request_id) == "r1"

WorkerResultFile(request_id) == request_id

\* open(result_file, 'w'): the file is created or truncated.
Truncate(file) == EmptyFile

\* json.dump through a handle opened earlier: the bytes go to offset 0.  When
\* another process has filled the file since this handle truncated it, what is
\* left is this record, or this record followed by the tail of the longer one.
DumpOutcomes(file, rec) == IF file = EmptyFile THEN {rec} ELSE {rec, Garbled}

\* Outcomes of opening or reading a file: success, and failure when the storage is faulty.
StorageOutcomes == IF faults THEN {TRUE, FALSE} ELSE {TRUE}

\* ------------------------------------------------------------ retrieval
load_result_from_disk_EmptyForMissing(request_id, ok) ==
    IF ~ok THEN None
    ELSE LET result_file == ServerResultFile(request_id) IN
         IF disk[result_file] = NoFile THEN Some(<<>>)
         ELSE IF disk[result_file].kind # "json" THEN None
         ELSE Some(disk[result_file].result)

load_result_from_disk(request_id, ok) ==
    IF ~ok THEN None
    ELSE LET result_file == ServerResultFile(request_id) IN
         IF disk[result_file] = NoFile THEN None
         ELSE IF disk[result_file].kind # "json" THEN None
         ELSE Some(disk[result_file].result)

get_search_results_MemoryFirst(request_id, ok) ==
    LET disk_result == load_result_from_disk(request_id, ok) IN
    IF request_id \in DOMAIN search_results THEN search_results[request_id]
    ELSE IF disk_result # None THEN Val(disk_result)
    ELSE NotFoundMsg(request_id)

get_search_results_NoMirror(request_id, ok) ==
    LET disk_result == load_result_from_disk(request_id, ok) IN
    IF disk_result # None THEN Val(disk_result)
    ELSE NotFoundMsg(request_id)

get_search_results(request_id, ok) ==
    LET disk_result == load_result_from_disk(request_id, ok) IN
    IF disk_result # None THEN Val(disk_result)
    ELSE IF request_id \in DOMAIN search_results THEN search_results[request_id]
    ELSE NotFoundMsg(request_id)

\* ------------------------------------------------------------ orders
\* The names bound in the module namespace of server.py when perform_order
\* runs: its imports and its top-level definitions.
ServerGlobals ==
    {"asyncio", "json", "subprocess", "sys", "Path", "datetime", "load_dotenv",
     "FastMCP", "Context", "mcp", "RESULTS_DIR", "search_results",
     "save_result_to_disk", "load_result_from_disk", "find_menu_options",
     "get_search_results", "order_food", "perform_order"}

\* str(e) of the NameError a call through an unbound global raises.
NameErrorStr(name) == <<"name '", name, "' is not defined">>

\* How the engine would end for an order if it were run.
OrderEngineOutcomes ==
    {[kind |-> "return", value |-> Some(<<"Order placed">>)]}
        \cup [kind : {"raise"}, value : {Some(e) : e \in EngineErrors}]
        \cup [kind : {"cancelled"}, value : {None}]

\* perform_order: `await run_browser_agent(task=task, on_step=step_handler)`.
\* The name is looked up first; the engine runs only if it is bound.
CallEngine(o) ==
    IF "run_browser_agent" \in ServerGlobals THEN ojob[o].engine
    ELSE [kind |-> "raise", value |-> Some(NameErrorStr("run_browser_agent"))]

PlacedMsg(item_name) == <<"Order for '", item_name, "' has been placed successfully!">>
OrderErrorMsg(item_name, e) == <<"Error ordering '", item_name, "': ">> \o e

\* ------------------------------------------------------------ the JSON file
\* In this part a text is a sequence of characters, and so is what json.dump
\* leaves in the file.  A backslash in the file is followed by one item: the
\* escaped character, "n", or the four hex digits "u00e9".
Texts == UNION {[1..n -> Chars] : n \in 0..MaxTextLen}

\* json.dump (ensure_ascii is on): what one character of a string becomes.
JsonEscape_BackslashAsIs(c) ==
    CASE c = "\"" -> <<"\\", "\"">>
      [] c = "\n" -> <<"\\", "n">>
      [] c = "U+00E9" -> <<"\\", "u00e9">>
      [] OTHER -> <<c>>

JsonEscape(c) ==
    CASE c = "\"" -> <<"\\", "\"">>
      [] c = "\\" -> <<"\\", "\\">>
      [] c = "\n" -> <<"\\", "n">>
      [] c = "U+00E9" -> <<"\\", "u00e9">>
      [] OTHER -> <<c>>

RECURSIVE JsonEscapeAll(_)
JsonEscapeAll(text) ==
    IF text = <<>> THEN <<>> ELSE JsonEscape(Head(text)) \o JsonEscapeAll(Tail(text))

\* json.dump of the value of "result": the string between double quotes.
json_dump(text) == <<"\"">> \o JsonEscapeAll(text) \o <<"\"">>

\* json.load: what follows a backslash stands for one character.
JsonUnescape(x) ==
    CASE x = "\"" -> Some("\"")
      [] x = "\\" -> Some("\\")
      [] x = "n" -> Some("\n")
      [] x = "u00e9" -> Some("U+00E9")
      [] OTHER -> None

\* json.load scanning a string from position i on: the text up to the closing
\* quote, or None where the decoder raises (no closing quote, a bad escape, a
\* raw control character, or something left after the closing quote).
RECURSIVE JsonScan(_, _, _)
JsonScan(s, i, acc) ==
    IF i > Len(s) THEN None
    ELSE IF s[i] = "\"" THEN (IF i = Len(s) THEN Some(acc) ELSE None)
    ELSE IF s[i] = "\n" THEN None
    ELSE IF s[i] = "\\"
         THEN IF i + 1 > Len(s) \/ JsonUnescape(s[i + 1]) = None THEN None
              ELSE JsonScan(s, i + 2, Append(acc, Val(JsonUnescape(s[i + 1]))))
    ELSE JsonScan(s, i + 1, Append(acc, s[i]))

json_load(s) == IF s = <<>> \/ s[1] # "\"" THEN None ELSE JsonScan(s, 2, <<>>)

\* ------------------------------------------------------------ initial state
InitCore ==
    /\ alive = TRUE
    /\ spc = [r \in RequestIds |-> "new"]
    /\ job = <<>>
    /\ search_results = <<>>
    /\ disk = [r \in RequestIds |-> NoFile]
    /\ wpc = [r \in RequestIds |-> "none"]
    /\ wsite = [r \in RequestIds |-> "none"]
    /\ wsave = [r \in RequestIds |-> None]
    /\ result = [r \in RequestIds |-> None]
    /\ step_count = [r \in RequestIds |-> 0]
    /\ engineRuns = [r \in RequestIds |-> 0]
    /\ engineOut = [r \in RequestIds |-> Pending]
    /\ writes = [r \in RequestIds |-> <<>>]
    /\ acks = <<>>
    /\ opc = [o \in Orders |-> "none"]
    /\ ojob = <<>>
    /\ notes = [o \in Orders |-> <<>>]
    /\ cfile = [r \in RequestIds |-> NoFile]
    /\ ctext = [r \in RequestIds |-> None]
    /\ cload = None

Init == InitCore /\ faults = FALSE

InitFault == InitCore /\ faults = TRUE

\* The server runs one handler at a time and leaves it only at an await.
ServerFree == alive /\ \A r \in RequestIds : spc[r] # "writing"

serverVars == <<spc, job, search_results>>
workerVars == <<wpc, wsite, wsave, result, step_count, engineRuns, engineOut>>

\* ------------------------------------------------------------ the server
\* find_menu_options up to its await: the worker is spawned first.
FMO_Spawn(r, address, food_craving) ==
    /\ ServerFree
    /\ spc[r] = "new"
    /\ spc' = [spc EXCEPT ![r] = "spawned"]
    /\ job' = (r :> [address |-> address, food_craving |-> food_craving]) @@ job
    /\ wpc' = [wpc EXCEPT ![r] = "main"]
    /\ UNCHANGED <<alive, faults, search_results, disk, wsite, wsave, result,
                   step_count, engineRuns, engineOut, writes>>
    /\ UNCHANGED <<acks, orderVars, codecVars>>

FMO_Store_AfterWorker(r) ==
    /\ ServerFree
    /\ spc[r] = "spawned"
    /\ wpc[r] \in {"done", "crashed"}
    /\ search_results' = (r :> initial_status(job[r])) @@ search_results
    /\ spc' = [spc EXCEPT ![r] = "acked"]
    /\ acks' = (r :> SearchAck(r)) @@ acks
    /\ UNCHANGED <<alive, faults, job, disk, workerVars, writes, orderVars, codecVars>>

\* find_menu_options after the await: the placeholder goes to the dict, and
\* save_result_to_disk opens the file.  A failing open is caught and the
\* acknowledgement is returned.
FMO_Store(r) ==
    /\ ServerFree
    /\ spc[r] = "spawned"
    /\ search_results' = (r :> initial_status(job[r])) @@ search_results
    /\ \E ok \in StorageOutcomes :
         IF ok
         THEN /\ disk' = [disk EXCEPT ![ServerResultFile(r)] = Truncate(@)]
              /\ spc' = [spc EXCEPT ![r] = "writing"]
         ELSE /\ disk' = disk
              /\ spc' = [spc EXCEPT ![r] = "acked"]
    /\ acks' = IF spc'[r] = "acked" THEN (r :> SearchAck(r)) @@ acks ELSE acks
    /\ UNCHANGED <<alive, faults, job, workerVars, writes>>
    /\ UNCHANGED <<orderVars, codecVars>>

\* save_result_to_disk fills the file; find_menu_options returns.
FMO_Dump(r) ==
    /\ alive
    /\ spc[r] = "writing"
    /\ spc' = [spc EXCEPT ![r] = "acked"]
    /\ acks' = (r :> SearchAck(r)) @@ acks
    /\ \E f \in DumpOutcomes(disk[ServerResultFile(r)], ServerRecord(r, search_results[r])) :
          disk' = [disk EXCEPT ![ServerResultFile(r)] = f]
    /\ writes' = [writes EXCEPT ![ServerResultFile(r)] =
                    Append(@, [by |-> "server", result |-> search_results[r]])]
    /\ UNCHANGED <<alive, faults, job, search_results, workerVars>>
    /\ UNCHANGED <<orderVars, codecVars>>

\* The resource handler get_search_results: it returns get_search_results(r, ok)
\* to the caller and writes nothing.
Get(r) ==
    /\ ServerFree
    /\ \E ok \in StorageOutcomes : get_search_results(r, ok) \in Seq(STRING)
    /\ UNCHANGED vars

\* The server process exits: its handlers, its dict and its session with the
\* caller are gone, and the read ends of the workers' pipes are closed.
ServerExit ==
    /\ alive
    /\ alive' = FALSE
    /\ spc' = [r \in RequestIds |-> "exited"]
    /\ search_results' = <<>>
    /\ acks' = <<>>
    /\ UNCHANGED <<faults, job, disk, workerVars, writes>>
    /\ UNCHANGED <<orderVars, codecVars>>

\* ------------------------------------------------------------ the worker
\* print(..., flush=True) writes to the stdout pipe, which the server never
\* reads: it raises BrokenPipeError once the server, the only reader, is gone.
\* (The worker's own prints stay far below the capacity of the pipe, so they
\* do not block while the server lives.)
PrintOk == alive

Goto(r, pc, site, save) ==
    /\ wpc' = [wpc EXCEPT ![r] = pc]
    /\ wsite' = [wsite EXCEPT ![r] = site]
    /\ wsave' = [wsave EXCEPT ![r] = save]

\* run_search's `except Exception as e`: error_msg = f"Error: {str(e)}" is saved.
GoExcept(r, e) == Goto(r, "save_open", "except", Some(ErrorMsg(e)))

\* An exception leaves save_result_to_disk (the print in its own handler failed):
\* the call in the try block is covered by `except Exception`, the calls in the
\* two handlers are not.
Escape(r) ==
    IF wsite[r] = "try" THEN GoExcept(r, BrokenPipeStr)
    ELSE Goto(r, "crashed", "none", None)

\* __main__: the argument check and the first print.
W_Main(r) ==
    /\ wpc[r] = "main"
    /\ IF PrintOk THEN Goto(r, "begin", "none", None)
       ELSE Goto(r, "crashed", "none", None)
    /\ UNCHANGED <<alive, faults, serverVars, disk, result, step_count, engineRuns,
                   engineOut, writes>>
    /\ UNCHANGED <<acks, orderVars, codecVars>>

\* run_search up to the call of run_browser_agent.
W_Begin(r) ==
    /\ wpc[r] = "begin"
    /\ step_count' = [step_count EXCEPT ![r] = 0]
    /\ IF PrintOk
       THEN /\ Goto(r, "engine", "none", None)
            /\ engineRuns' = [engineRuns EXCEPT ![r] = @ + 1]
       ELSE /\ GoExcept(r, BrokenPipeStr)
            /\ UNCHANGED engineRuns
    /\ UNCHANGED <<alive, faults, serverVars, disk, result, engineOut, writes>>
    /\ UNCHANGED <<acks, orderVars, codecVars>>

\* The engine calls step_handler.  What the engine does with an exception of
\* its callback is the engine's business: it goes on, or it lets it through.
W_Step(r) ==
    /\ wpc[r] = "engine"
    /\ step_count[r] < MaxSteps
    /\ step_count' = [step_count EXCEPT ![r] = @ + 1]
    /\ \/ /\ UNCHANGED <<wpc, wsite, wsave, engineOut>>
       \/ /\ ~PrintOk
          /\ GoExcept(r, BrokenPipeStr)
          /\ engineOut' = [engineOut EXCEPT ![r] = [kind |-> "raise", value |-> Some(BrokenPipeStr)]]
    /\ UNCHANGED <<alive, faults, serverVars, disk, result, engineRuns, writes>>
    /\ UNCHANGED <<acks, orderVars, codecVars>>

\* run_browser_agent ends: it returns, raises or is cancelled.  The engine is
\* the only caller of step_handler, so step_count is not read again.
W_EngineEnd(r) ==
    /\ wpc[r] = "engine"
    /\ \E o \in EngineOutcomes(job[r]) :
         /\ engineOut' = [engineOut EXCEPT ![r] = o]
         /\ IF o.kind = "return"
            THEN /\ result' = [result EXCEPT ![r] = o.value]
                 /\ Goto(r, "save_open", "try", o.value)
            ELSE /\ UNCHANGED result
                 /\ IF o.kind = "raise"
                    THEN GoExcept(r, Val(o.value))
                    ELSE Goto(r, "save_open", "cancel", Some(CancelledMsg))
    /\ step_count' = [step_count EXCEPT ![r] = 0]
    /\ UNCHANGED <<alive, faults, serverVars, disk, engineRuns, writes>>
    /\ UNCHANGED <<acks, orderVars, codecVars>>

\* save_result_to_disk up to open(): building `data` raises for a result that
\* is None, and open() may fail; both land in the function's own handler.
W_SaveOpen(r) ==
    /\ wpc[r] = "save_open"
    /\ \E ok \in StorageOutcomes :
         IF wsave[r] # None /\ ok
         THEN /\ disk' = [disk EXCEPT ![WorkerResultFile(r)] = Truncate(@)]
              /\ Goto(r, "save_dump", wsite[r], wsave[r])
         ELSE /\ UNCHANGED disk
              /\ IF PrintOk THEN Goto(r, "after_save", wsite[r], wsave[r]) ELSE Escape(r)
    /\ UNCHANGED <<alive, faults, serverVars, result, step_count, engineRuns, engineOut, writes>>
    /\ UNCHANGED <<acks, orderVars, codecVars>>

\* save_result_to_disk: json.dump, close, print.
W_SaveDump(r) ==
    /\ wpc[r] = "save_dump"
    /\ \E f \in DumpOutcomes(disk[WorkerResultFile(r)], WorkerRecord(r, Val(wsave[r]))) :
          disk' = [disk EXCEPT ![WorkerResultFile(r)] = f]
    /\ writes' = [writes EXCEPT ![WorkerResultFile(r)] =
                    Append(@, [by |-> "worker", result |-> Val(wsave[r])])]
    /\ IF PrintOk THEN Goto(r, "after_save", wsite[r], wsave[r]) ELSE Escape(r)
    /\ UNCHANGED <<alive, faults, serverVars, result, step_count, engineRuns, engineOut>>
    /\ UNCHANGED <<acks, orderVars, codecVars>>

\* What follows the save at each call site: the two prints of the try block
\* (the second slices `result`, which is not read again), or the print of the
\* handler.
W_AfterSave(r) ==
    /\ wpc[r] = "after_save"
    /\ IF wsite[r] = "try"
       THEN IF ~PrintOk THEN GoExcept(r, BrokenPipeStr)
            ELSE IF result[r] = None THEN GoExcept(r, NoneSliceStr)
            ELSE Goto(r, "finish", "none", None)
       ELSE IF PrintOk THEN Goto(r, "finish", "none", None)
            ELSE Goto(r, "crashed", "none", None)
    /\ result' = [result EXCEPT ![r] = None]
    /\ UNCHANGED <<alive, faults, serverVars, disk, step_count, engineRuns,
                   engineOut, writes>>
    /\ UNCHANGED <<acks, orderVars, codecVars>>

\* __main__ after asyncio.run: the last print.
W_Finish(r) ==
    /\ wpc[r] = "finish"
    /\ IF PrintOk THEN Goto(r, "done", "none", None)
       ELSE Goto(r, "crashed", "none", None)
    /\ UNCHANGED <<alive, faults, serverVars, disk, result, step_count, engineRuns,
                   engineOut, writes>>
    /\ UNCHANGED <<acks, orderVars, codecVars>>

\* ------------------------------------------------------------ the round trip
coreVars == <<alive, faults, serverVars, disk, workerVars, writes, acks>>

\* server.py save_result_to_disk(request_id, result): the file is opened with
\* 'w' and the record is dumped into it.
RT_Save(request_id, text) ==
    /\ alive
    /\ cfile' = [cfile EXCEPT ![ServerResultFile(request_id)] =
                    [kind |-> "json", result |-> json_dump(text)]]
    /\ ctext' = [ctext EXCEPT ![request_id] = Some(text)]
    /\ cload' = None
    /\ UNCHANGED <<coreVars, orderVars>>

\* server.py load_result_from_disk(request_id): None for a missing file and
\* for one json.load cannot read, data.get("result") otherwise.
RT_Load(request_id) ==
    /\ alive
    /\ cload' = Some([request_id |-> request_id,
                      value |-> IF cfile[ServerResultFile(request_id)] = NoFile THEN None
                                ELSE json_load(cfile[ServerResultFile(request_id)].result)])
    /\ UNCHANGED <<coreVars, orderVars, cfile, ctext>>

NextRoundTrip ==
    \/ \E request_id \in RequestIds, text \in Texts : RT_Save(request_id, text)
    \/ \E request_id \in RequestIds : RT_Load(request_id)

\* Saves and loads of the server, one at a time, on storage that works.
SpecRoundTrip == Init /\ [][NextRoundTrip]_vars

\* ------------------------------------------------------------ the order task
searchVars == <<alive, faults, serverVars, disk, workerVars, writes>>

\* order_food: the task is created and the acknowledgement is returned, with
\* no await in between.
OrderFood(o, item_name, engine) ==
    /\ ServerFree
    /\ opc[o] = "none"
    /\ opc' = [opc EXCEPT ![o] = "scheduled"]
    /\ ojob' = (o :> [item_name |-> item_name, engine |-> engine]) @@ ojob
    /\ acks' = (o :> OrderAck(item_name)) @@ acks
    /\ UNCHANGED <<searchVars, notes, codecVars>>

\* perform_order from its first line to its first await: the engine call
\* returns (the task awaits context.info), raises (`except Exception`: the
\* task awaits context.error) or is cancelled (asyncio.CancelledError is a
\* BaseException, which `except Exception` lets through).
P_Run(o) ==
    /\ ServerFree
    /\ opc[o] = "scheduled"
    /\ opc' = [opc EXCEPT ![o] =
                 CASE CallEngine(o).kind = "return" -> "info"
                   [] CallEngine(o).kind = "raise" -> "error"
                   [] OTHER -> "aborted"]
    /\ UNCHANGED <<searchVars, acks, ojob, notes, codecVars>>

\* The awaited notification is sent and perform_order returns.
P_Sent(o) ==
    /\ ServerFree
    /\ opc[o] \in {"info", "error"}
    /\ notes' = [notes EXCEPT ![o] = Append(@,
                   IF opc[o] = "info"
                   THEN [level |-> "info", text |-> PlacedMsg(ojob[o].item_name)]
                   ELSE [level |-> "error",
                         text |-> OrderErrorMsg(ojob[o].item_name, Val(CallEngine(o).value))])]
    /\ opc' = [opc EXCEPT ![o] = "done"]
    /\ UNCHANGED <<searchVars, acks, ojob, codecVars>>

\* The task is cancelled while it awaits: CancelledError is raised at the
\* await, after the try body or inside the handler, and leaves perform_order.
P_Cancel(o) ==
    /\ ServerFree
    /\ opc[o] \in {"info", "error"}
    /\ opc' = [opc EXCEPT ![o] = "aborted"]
    /\ UNCHANGED <<searchVars, acks, ojob, notes, codecVars>>

\* Orders next to dispatches and retrievals; the workers make no step.
NextOrder ==
    \/ \E o \in Orders, item_name \in ItemNames, engine \in OrderEngineOutcomes :
          OrderFood(o, item_name, engine)
    \/ \E o \in Orders : P_Run(o)
    \/ \E o \in Orders : P_Sent(o)
    \/ \E o \in Orders : P_Cancel(o)
    \/ \E r \in RequestIds, address \in Addresses, food_craving \in Cravings :
          FMO_Spawn(r, address, food_craving)
    \/ \E r \in RequestIds : FMO_Store(r)
    \/ \E r \in RequestIds : FMO_Dump(r)
    \/ \E r \in RequestIds : Get(r)

SpecOrder == Init /\ [][NextOrder]_vars

\* ------------------------------------------------------------ specification
Next ==
    \/ \E r \in RequestIds, address \in Addresses, food_craving \in Cravings :
          FMO_Spawn(r, address, food_craving)
    \/ \E r \in RequestIds : FMO_Store(r)
    \/ \E r \in RequestIds : FMO_Dump(r)
    \/ \E r \in RequestIds : Get(r)
    \/ ServerExit
    \/ \E r \in RequestIds : W_Main(r)
    \/ \E r \in RequestIds : W_Begin(r)
    \/ \E r \in RequestIds : W_Step(r)
    \/ \E r \in RequestIds : W_EngineEnd(r)
    \/ \E r \in RequestIds : W_SaveOpen(r)
    \/ \E r \in RequestIds : W_SaveDump(r)
    \/ \E r \in RequestIds : W_AfterSave(r)
    \/ \E r \in RequestIds : W_Finish(r)

\* Storage that works.
Spec == Init /\ [][Next]_vars

\* Storage that may fail at every operation.
SpecFault == InitFault /\ [][Next]_vars

\* ------------------------------------------------------------ properties
\* The texts the worker of r has put into the file, in order.
WorkerWrites(r) == SelectSeq(writes[r], LAMBDA w : w.by = "worker")
ServerWrites(r) == SelectSeq(writes[r], LAMBDA w : w.by = "server")
Ended(r) == wpc[r] \in {"done", "crashed"}
PlaceholderOf(r) ==
    <<"Search ", "for '", job[r].food_craving, "' at '", job[r].address,
      "' is running. Check back in 2-3 minutes for results.">>
BeginsWithMarker(t) ==
    \/ (Len(t) >= 1 /\ t[1] = "Error")
    \/ (Len(t) >= 2 /\ t[1] = "Search " /\ t[2] = "was cancelled")

\* C1: once the worker has written the terminal record of a request, every
\* get_search_results call for it returns that terminal text (never the
\* placeholder again).
C1_TerminalIsFinal ==
    \A r \in RequestIds :
        (ServerFree /\ WorkerWrites(r) # <<>>)
            => get_search_results(r, TRUE) = WorkerWrites(r)[Len(WorkerWrites(r))].result

\* C2: when the server has exited after the spawn, the worker has, at its end,
\* run the engine once and left a record holding the engine's outcome.
C2_SurvivesLauncherExit ==
    \A r \in RequestIds :
        (~alive /\ Ended(r)) =>
            /\ engineRuns[r] = 1
            /\ disk[r].kind = "json"
            /\ engineOut[r].kind = "return" /\ engineOut[r].value # None
                  => disk[r].result = Val(engineOut[r].value)
            /\ engineOut[r].kind = "raise" => disk[r].result = <<"Error", ": ">> \o Val(engineOut[r].value)
            /\ engineOut[r].kind = "cancelled" => disk[r].result = CancelledMsg

\* C3: the record of a job is written at most once by the dispatcher and at
\* most once by the worker, and exactly once by a worker that finished.
C3_OneTerminalWrite ==
    \A r \in RequestIds :
        /\ Len(ServerWrites(r)) <= 1
        /\ Len(WorkerWrites(r)) <= 1
        /\ wpc[r] = "done" => Len(WorkerWrites(r)) = 1

\* C4: after the acknowledgement and before the worker's terminal write,
\* get_search_results returns the placeholder built from the job's parameters,
\* whatever the storage does.
C4_PlaceholderWhileRunning ==
    \A r \in RequestIds : \A ok \in StorageOutcomes :
        (ServerFree /\ spc[r] = "acked" /\ WorkerWrites(r) = <<>>)
            => get_search_results(r, ok) = PlaceholderOf(r)

\* C4 witness: the placeholder never reached the disk, the worker is running,
\* and the call answers from the dict.
C4_Witness ==
    \E r \in RequestIds :
        /\ ServerFree /\ spc[r] = "acked" /\ disk[r] = NoFile
        /\ wpc[r] = "engine"
        /\ get_search_results(r, TRUE) = PlaceholderOf(r)

TextsInUse ==
    {disk[r].result : r \in {q \in RequestIds : disk[q].kind = "json"}}
        \cup {search_results[r] : r \in DOMAIN search_results}
        \cup UNION {wsave[r] : r \in RequestIds}

\* C6: the server's and the worker's save_result_to_disk derive the same
\* status: 'error' exactly for a text that begins with 'Error' or with
\* 'Search was cancelled', 'completed' otherwise.
C6_SameStatus ==
    /\ \A t \in TextsInUse :
          /\ ServerStatus(t) = WorkerStatus(t)
          /\ WorkerStatus(t) = (IF BeginsWithMarker(t) THEN "error" ELSE "completed")
    /\ \A r \in RequestIds :
          disk[r].kind = "json" =>
              disk[r].status = (IF BeginsWithMarker(disk[r].result) THEN "error" ELSE "completed")

\* C6 witness: the worker has stored the cancellation text with status 'error'
\* for one request and an engine result beginning with 'Error' for another.
C6_Witness ==
    \E r, q \in RequestIds :
        /\ disk[r].kind = "json" /\ disk[r].result = CancelledMsg /\ disk[r].status = "error"
        /\ disk[q].kind = "json" /\ engineOut[q].kind = "return"
        /\ engineOut[q].value # None
        /\ disk[q].result = Val(engineOut[q].value) /\ disk[q].status = "error"

\* C7: the record written with the placeholder has status 'running'; a record
\* with status 'completed' never holds the placeholder.
C7_PlaceholderIsRunning ==
    \A r \in RequestIds :
        (disk[r].kind = "json" /\ disk[r].result = PlaceholderOf(r))
            => disk[r].status = "running"

\* C8: a cancelled engine run leaves the cancellation text with status 'error',
\* and the worker finishes normally.
C8_CancelledIsRecorded ==
    \A r \in RequestIds :
        engineOut[r].kind = "cancelled" =>
            /\ wpc[r] # "crashed"
            /\ wpc[r] \in {"finish", "done"} =>
                  WorkerWrites(r) = <<[by |-> "worker", result |-> CancelledMsg]>>

\* C9: a failed engine run leaves 'Error: ' and the description, and no worker
\* that ran the engine ends while the record holds the placeholder.
C9_ErrorIsRecorded ==
    [][\A r \in RequestIds :
          (~Ended(r) /\ Ended(r)' /\ engineRuns[r] = 1) =>
              /\ engineOut[r].kind = "raise" =>
                    \E i \in 1..Len(WorkerWrites(r)') :
                        WorkerWrites(r)'[i].result = <<"Error", ": ">> \o Val(engineOut[r].value)
              /\ ~(disk'[r].kind = "json" /\ disk'[r].result = PlaceholderOf(r))]_vars

\* The texts the job of r can produce.
OwnTexts(r) ==
    {PlaceholderOf(r), CancelledMsg}
        \cup {<<"Error", ": ">> \o e : e \in EngineErrors \cup {BrokenPipeStr, NoneSliceStr}}
        \cup UNION (EngineResults(job[r]))

\* C10: the record and the dict entry of a request only hold texts of that
\* request's own job, under its own identifier.
C10_NoLeak ==
    \A r \in RequestIds :
        /\ disk[r] # NoFile => r \in DOMAIN job
        /\ disk[r].kind = "json" =>
              /\ disk[r].request_id = r
              /\ disk[r].result \in OwnTexts(r)
              /\ \E i \in 1..Len(writes[r]) : writes[r][i].result = disk[r].result
        /\ r \in DOMAIN search_results => search_results[r] = PlaceholderOf(r)

\* C10 witness: two jobs with different parameters both hold their own
\* terminal result.
C10_Witness ==
    \E r, q \in RequestIds :
        /\ r # q /\ {r, q} \subseteq DOMAIN job
        /\ job[r].food_craving # job[q].food_craving
        /\ disk[r].kind = "json" /\ disk[q].kind = "json"
        /\ engineOut[r].kind = "return" /\ engineOut[q].kind = "return"
        /\ engineOut[r].value # None /\ engineOut[q].value # None
        /\ disk[r].result = Val(engineOut[r].value)
        /\ disk[q].result = Val(engineOut[q].value)
        /\ disk[r].result # disk[q].result

\* C11: a load that follows a save of the same request identifier, with no
\* other save of that identifier in between, returns exactly the text saved.
C11_RoundTrip ==
    cload # None =>
        LET l == Val(cload) IN
            ctext[l.request_id] # None => l.value = ctext[l.request_id]

\* A text holding a backslash and a text holding a double quote came back.
C11_Witness ==
    /\ cload # None
    /\ ctext[Val(cload).request_id] # None
    /\ Val(cload).value # None
    /\ \E i \in DOMAIN Val(Val(cload).value) : Val(Val(cload).value)[i] \in {"\\", "\""}
    /\ \E q \in RequestIds : q # Val(cload).request_id /\ ctext[q] # None

\* C12: the acknowledgement of a dispatch never waits for the worker: after
\* the spawn the rest of find_menu_options can run whatever the worker does,
\* and the acknowledgement names resource://search_results/<request_id>;
\* order_food has returned its acknowledgement whenever its task exists, even
\* when perform_order has made no step.
C12_AckWithoutWaiting ==
    /\ \A r \in RequestIds :
         /\ (ServerFree /\ spc[r] = "spawned") => ENABLED FMO_Store(r)
         /\ spc[r] = "writing" => ENABLED FMO_Dump(r)
         /\ spc[r] = "acked" =>
              /\ r \in DOMAIN acks
              /\ SubSeq(acks[r], Len(acks[r]) - 1, Len(acks[r]))
                    = <<"resource://search_results/", r>>
    /\ \A o \in Orders :
         opc[o] # "none" => (o \in DOMAIN acks /\ acks[o] = OrderAck(ojob[o].item_name))

\* A dispatch and an order are acknowledged while the worker and the task
\* have made no step.
C12_Witness ==
    /\ \E r \in RequestIds : spc[r] = "acked" /\ wpc[r] = "main" /\ r \in DOMAIN acks
    /\ \E o \in Orders : opc[o] = "scheduled" /\ o \in DOMAIN acks

\* C13: an order whose engine run would complete without failure ends with
\* the notification "Order for '<item_name>' has been placed successfully!"
\* sent through context.info, and with no error notification.
C13_SuccessIsNotified ==
    \A o \in Orders :
        (opc[o] = "done" /\ ojob[o].engine.kind = "return") =>
            notes[o] = <<[level |-> "info", text |-> PlacedMsg(ojob[o].item_name)]>>

C15_CancellationIsCaught == \A o \in Orders : opc[o] # "aborted"

\* C16: the placeholder is written, to the dict and to the file, before the
\* worker process exists, so the first completed write of a file is the
\* server's.
C16_PlaceholderBeforeSpawn ==
    \A r \in RequestIds :
        /\ (alive /\ wpc[r] # "none") =>
              (r \in DOMAIN search_results /\ ServerWrites(r) # <<>>)
        /\ writes[r] # <<>> => writes[r][1].by = "server"

\* C17: a get_search_results call made while the worker is between open()
\* and json.dump returns the text of the last completed write of that file
\* or the text being written.
C17_ReadDuringWrite ==
    \A r \in RequestIds :
        (ServerFree /\ wpc[r] = "save_dump") =>
            get_search_results(r, TRUE) \in
                {Val(wsave[r])} \cup
                (IF writes[r] = <<>> THEN {} ELSE {writes[r][Len(writes[r])].result})

\* C18: get_search_results returns the result text of the file when the read
\* succeeds, otherwise the entry of the dict when there is one, otherwise the
\* not-found message; a failed read is never what the caller gets.
C18_PreferenceOrder ==
    \A r \in RequestIds, ok \in StorageOutcomes :
        get_search_results(r, ok) =
            IF ok /\ disk[r].kind = "json" THEN disk[r].result
            ELSE IF r \in DOMAIN search_results THEN search_results[r]
            ELSE <<"No search results found for request ID: ", r>>

\* The file holds a terminal text while the dict holds the placeholder, on
\* storage whose reads may fail.
C18_Witness ==
    /\ faults
    /\ \E r \in RequestIds :
         /\ ServerFree
         /\ r \in DOMAIN search_results
         /\ disk[r].kind = "json"
         /\ disk[r].result # search_results[r]
    /\ \E q \in RequestIds : q \notin DOMAIN search_results /\ disk[q].kind # "json"

\* C19: a save_result_to_disk whose open() fails returns normally: in the
\* server the acknowledgement is returned and the dict holds the placeholder,
\* in the worker run_search goes on after the call, at the same call site.
C19_WriteFailureIsContained ==
    [][\A r \in RequestIds :
        /\ (spc[r] = "spawned" /\ spc'[r] = "acked") =>
              /\ r \in DOMAIN acks'
              /\ r \in DOMAIN search_results' /\ search_results'[r] = PlaceholderOf(r)
        /\ (wpc[r] = "save_open" /\ wsave[r] # None /\ wpc'[r] # "save_dump") =>
              (wpc'[r] = "after_save" /\ wsite'[r] = wsite[r])]_vars

\* C20: each call of the step callback adds one to the counter of its own job
\* and returns: the engine run goes on, and no run ends by an exception of the
\* callback.
C20_StepCallbackNeverRaises ==
    [][\A r \in RequestIds :
        /\ step_count'[r] \in {step_count[r], step_count[r] + 1, 0}
        /\ (wpc[r] = "engine" /\ step_count'[r] = step_count[r] + 1) =>
              (wpc'[r] = "engine" /\ engineOut'[r] = engineOut[r])]_vars

====
